---- MODULE Spec2Model ----
(***************************************************************************)
(* Emissions accounting and rollover engine of function_app.py: the Scores *)
(* and HistoricalData containers, the HTTP handlers as read-modify-write   *)
(* requests in flight, and the timer jobs iterating a snapshot of the      *)
(* current week's records.                                                 *)
(***************************************************************************)
EXTENDS Integers, Sequences, FiniteSets, TLC

VARIABLES
    clock,        \* datetime.utcnow(): [week |-> ISO week number, weekday |-> 0..6, Monday = 0]
    scores,       \* Scores container: document id -> document
    historical,   \* HistoricalData container: document id -> document
    reqs,         \* HTTP invocations in flight, per invocation slot
    acked,        \* the request bodies answered with status 200 so far
    jobs,         \* timer invocations in flight, per timer function
    nreq,         \* HTTP requests received so far
    njob,         \* timer firings so far
    nday,         \* midnights passed so far
    fnIn,         \* argument of the helper update_user_emissions / the update_driving mutation
    fnOut         \* its result

vars == <<clock, scores, historical, reqs, acked, jobs, nreq, njob, nday, fnIn, fnOut>>

----------------------------------------------------------------------------
(* Bounds of the model                                                     *)
MaxReq == 2
MaxJob == 2
MaxDay == 1
MaxInFlight == 2

(* Program constants                                                       *)
HistoryLen == 7
PassiveFood == 17
PassiveGoods == 19
HoursPerDay == 24
EnergyPerHour == 600
WeeksPerYear == 52

(* JSON values that are not numbers: null and a string.  Numbers are Int.  *)
None == -1000001
NotNum == -1000002
IsNum(x) == x # None /\ x # NotNum

Users == {"u1", "u2"}
NoUser == ""
Slots == {1, 2}
Timers == {"hourly", "energy", "daily"}

Max(a, b) == IF a >= b THEN a ELSE b

----------------------------------------------------------------------------
(* Documents                                                               *)

create_empty_emissions == [carEmissions |-> 0, food |-> 0, energy |-> 0, goods |-> 0]

RECURSIVE SumOver(_, _)
SumOver(d, ks) ==
    IF ks = {} THEN 0
    ELSE LET k == CHOOSE x \in ks : TRUE IN d[k] + SumOver(d, ks \ {k})

\* sum(day.values())
SumValues(d) == SumOver(d, DOMAIN d)

\* sum() raises TypeError on a value that is not a number
Summable(d) == \A k \in DOMAIN d : IsNum(d[k])

RECURSIVE SumHistory(_)
SumHistory(h) == IF h = <<>> THEN 0 ELSE SumValues(Head(h)) + SumHistory(Tail(h))

calculate_weekly_score(daily_history, current_day_emissions, offset_grams) ==
    IF /\ \A i \in 1..Len(daily_history) : Summable(daily_history[i])
       /\ Summable(current_day_emissions)
       /\ IsNum(offset_grams)
    THEN Max(0, SumHistory(daily_history) + SumValues(current_day_emissions) - offset_grams)
    ELSE 0

\* f"{user_id}_{current_week}" and f"{item['userId']}_{current_week}_archive"
LiveId(user_id, week) == <<user_id, week>>
ArchiveId(user_id, week) == <<user_id, week, "archive">>

EmptyHistory == [i \in 1..HistoryLen |-> create_empty_emissions]

new_user(user_id, current_week, now) ==
    [id |-> LiveId(user_id, current_week),
     userId |-> user_id,
     weekNumber |-> current_week,
     weeklyScore |-> 0,
     dailyHistory |-> EmptyHistory,
     currentDayEmissions |-> create_empty_emissions,
     offsetGrams |-> 0,
     drivingHours |-> 0,
     carDetails |-> <<>>,
     lastUpdated |-> now]

\* container.upsert_item: create or replace by id
Upsert(container, doc) ==
    [i \in DOMAIN container \cup {doc.id} |-> IF i = doc.id THEN doc ELSE container[i]]

Docs(container) == {container[i] : i \in DOMAIN container}

\* SELECT * FROM c WHERE c.userId = @userId AND c.weekNumber = @week
QueryUserWeek(user_id, week) ==
    {d \in Docs(scores) : d.userId = user_id /\ d.weekNumber = week}

\* SELECT * FROM c WHERE c.weekNumber = @week
QueryWeek(week) == {d \in Docs(scores) : d.weekNumber = week}

\* list(container.query_items(...)): the rows in an order the store chooses
Listings(S) ==
    {s \in [1..Cardinality(S) -> S] : \A i, j \in 1..Cardinality(S) : i # j => s[i] # s[j]}

----------------------------------------------------------------------------
(* Request bodies: req_body.get(key) is None (numbers), "" (strings) or    *)
(* <<>> (lists, dicts) for a key the body lacks.                           *)

Body(op, user_id) ==
    [op |-> op, userId |-> user_id,
     drivingHours |-> None, drivingEmissions |-> 0,
     carYear |-> None, carMake |-> "", carModel |-> "",
     offsetGrams |-> None,
     weeklyScore |-> None, dailyHistory |-> <<>>, currentDayEmissions |-> <<>>]

NoBody == Body("none", NoUser)

\* "DailyEmissions" as section 3 of the design names its fields: not the keys the code uses
TotalOnlyDay == [total |-> 5]
TextDay == [carEmissions |-> NotNum, food |-> 0, energy |-> 0, goods |-> 0]
BusyDay == [carEmissions |-> 100, food |-> 0, energy |-> 0, goods |-> 0]

DrivingBodies ==
    {[Body("update_driving", "u1") EXCEPT !.drivingHours = 10, !.drivingEmissions = 300],
     [Body("update_driving", "u1") EXCEPT !.drivingHours = 30, !.drivingEmissions = -700],
     [Body("update_driving", "u1") EXCEPT !.drivingHours = NotNum],
     [Body("update_driving", "u1") EXCEPT !.drivingHours = 10, !.drivingEmissions = NotNum],
     Body("update_driving", "u1"),
     [Body("update_driving", NoUser) EXCEPT !.drivingHours = 10]}

CarInfoBodies ==
    {[Body("update_car_info", u) EXCEPT !.carYear = 2020, !.carMake = "vw", !.carModel = m] :
        u \in {"u1", NoUser}, m \in {"", "golf"}}

OffsetBodies ==
    {[Body("update_carbon_offsets", u) EXCEPT !.offsetGrams = 500] : u \in Users \cup {NoUser}}
    \cup {[Body("update_carbon_offsets", "u1") EXCEPT !.offsetGrams = g] :
            g \in {None, -200, NotNum}}

WeeklyScoreBodies ==
    {[Body("update_weekly_score", "u1") EXCEPT
        !.weeklyScore = -5, !.dailyHistory = <<TextDay>>,
        !.currentDayEmissions = TotalOnlyDay],
     [Body("update_weekly_score", "u1") EXCEPT
        !.weeklyScore = 800, !.dailyHistory = [i \in 1..HistoryLen |-> BusyDay],
        !.currentDayEmissions = BusyDay],
     [Body("update_weekly_score", "u1") EXCEPT
        !.weeklyScore = 900, !.dailyHistory = <<BusyDay>>]}

StatsBodies == {Body("get_user_stats", u) : u \in {"u2", NoUser}}

Bodies == DrivingBodies \cup CarInfoBodies \cup OffsetBodies \cup WeeklyScoreBodies
          \cup StatsBodies

\* Python truthiness of a JSON scalar, list or dict
TruthyNum(x) == x # None /\ x # 0
TruthyStr(x) == x # ""
TruthySeq(x) == x # <<>>

\* the "Missing required fields" / "User ID is required" checks
Valid(b) ==
    CASE b.op = "update_driving" -> TruthyStr(b.userId) /\ b.drivingHours # None
      [] b.op = "update_car_info" ->
            /\ TruthyStr(b.userId) /\ TruthyNum(b.carYear)
            /\ TruthyStr(b.carMake) /\ TruthyStr(b.carModel)
      [] b.op = "update_carbon_offsets" -> TruthyStr(b.userId) /\ b.offsetGrams # None
      [] b.op = "update_weekly_score" ->
            /\ TruthyStr(b.userId) /\ b.weeklyScore # None
            /\ TruthySeq(b.dailyHistory) /\ TruthySeq(b.currentDayEmissions)
      [] b.op = "get_user_stats" -> TruthyStr(b.userId)
      [] OTHER -> FALSE

\* a + b in Python: numbers add, two strings concatenate, anything else raises TypeError
CanAdd(a, b) == (IsNum(a) /\ IsNum(b)) \/ (a = NotNum /\ b = NotNum)
Add(a, b) == IF IsNum(a) THEN a + b ELSE NotNum

Raised == [ok |-> FALSE, doc |-> new_user(NoUser, 0, [week |-> 0, weekday |-> 0])]
Returned(doc) == [ok |-> TRUE, doc |-> doc]

AddTo_overwrite(d, key, value) == [d EXCEPT ![key] = value]

\* d[key] += value
AddTo(d, key, value) == [d EXCEPT ![key] = Add(d[key], value)]
CanAddTo(d, key, value) == key \in DOMAIN d /\ CanAdd(d[key], value)

SetKey_add(d, key, value) ==
    [k \in DOMAIN d \cup {key} |->
        IF k # key THEN d[k] ELSE IF key \in DOMAIN d THEN Add(d[key], value) ELSE value]

\* d[key] = value
SetKey(d, key, value) ==
    [k \in DOMAIN d \cup {key} |-> IF k = key THEN value ELSE d[k]]

Rescore_stale(doc) == doc

Rescore(doc) ==
    [doc EXCEPT !.weeklyScore =
        calculate_weekly_score(doc.dailyHistory, doc.currentDayEmissions, doc.offsetGrams)]

update_user_emissions(user_doc, emission_type, value) ==
    IF CanAddTo(user_doc.currentDayEmissions, emission_type, value)
    THEN Returned(Rescore([user_doc EXCEPT !.currentDayEmissions =
                            AddTo(user_doc.currentDayEmissions, emission_type, value)]))
    ELSE Raised

\* update_driving, from "Update driving data" to "Update timestamp"
update_driving(user_doc, driving_hours, driving_emissions, now) ==
    IF CanAddTo(user_doc.currentDayEmissions, "carEmissions", driving_emissions)
    THEN Returned([Rescore([user_doc EXCEPT
                        !.drivingHours = driving_hours,
                        !.currentDayEmissions =
                            AddTo(user_doc.currentDayEmissions, "carEmissions", driving_emissions)])
                   EXCEPT !.lastUpdated = now])
    ELSE Raised

update_car_info(user_doc, car_year, car_make, car_model) ==
    Returned([user_doc EXCEPT !.carDetails = <<car_year, car_make, car_model>>])

update_carbon_offsets(user_doc, offset_grams) ==
    IF CanAdd(user_doc.offsetGrams, offset_grams)
    THEN Returned(Rescore([user_doc EXCEPT
                            !.offsetGrams = Add(user_doc.offsetGrams, offset_grams)]))
    ELSE Raised

update_weekly_score(user_doc, weekly_score, daily_history, current_day_emissions, now) ==
    Returned([user_doc EXCEPT
                !.weeklyScore = weekly_score,
                !.dailyHistory = daily_history,
                !.currentDayEmissions = current_day_emissions,
                !.lastUpdated = now])

\* what a handler does to the document get_or_create_user returned, before it saves it
Handle(b, user_doc, now) ==
    CASE b.op = "update_driving" ->
            update_driving(user_doc, b.drivingHours, b.drivingEmissions, now)
      [] b.op = "update_car_info" ->
            update_car_info(user_doc, b.carYear, b.carMake, b.carModel)
      [] b.op = "update_carbon_offsets" ->
            update_carbon_offsets(user_doc, b.offsetGrams)
      [] b.op = "update_weekly_score" ->
            update_weekly_score(user_doc, b.weeklyScore, b.dailyHistory,
                                b.currentDayEmissions, now)
      [] OTHER -> Raised

----------------------------------------------------------------------------
(* HTTP invocations                                                        *)

IdleReq == [pc |-> "idle", body |-> NoBody, week |-> 0, doc |-> Raised.doc]

\* the handler returns func.HttpResponse(..., status_code=status)
Respond(s, status) ==
    /\ reqs' = [reqs EXCEPT ![s] = IdleReq]
    /\ acked' = IF status = 200 THEN acked \cup {reqs[s].body} ELSE acked

\* the handler has not answered yet
Pending(s, r) == reqs' = [reqs EXCEPT ![s] = r] /\ acked' = acked

InFlight == Cardinality({s \in Slots : reqs[s].pc # "idle"})
            + Cardinality({t \in Timers : jobs[t].pc # "idle"})

\* the host runs a new invocation in the first free slot
FreeSlot(s) == reqs[s].pc = "idle" /\ \A o \in Slots : o < s => reqs[o].pc # "idle"

\* a request arrives: validation, then the query of get_or_create_user
Receive(s, b) ==
    /\ FreeSlot(s)
    /\ nreq < MaxReq
    /\ InFlight < MaxInFlight
    /\ nreq' = nreq + 1
    /\ IF ~Valid(b)
       THEN reqs' = reqs /\ acked' = acked
       ELSE LET current_week == clock.week
                items == QueryUserWeek(b.userId, current_week)
            IN  IF items # {}
                THEN \E item \in items :
                        IF b.op = "get_user_stats"
                        THEN reqs' = reqs /\ acked' = acked \cup {b}
                        ELSE Pending(s, [pc |-> "write", body |-> b, week |-> current_week,
                                         doc |-> item])
                            
                ELSE Pending(s, [pc |-> "create", body |-> b, week |-> current_week,
                                 doc |-> new_user(b.userId, current_week, clock)])
                    
    /\ UNCHANGED <<clock, scores, historical, jobs, njob, nday, fnIn, fnOut>>

\* get_or_create_user: container.upsert_item(new_user)
Create(s) ==
    /\ reqs[s].pc = "create"
    /\ scores' = Upsert(scores, reqs[s].doc)
    /\ IF reqs[s].body.op = "get_user_stats"
       THEN Respond(s, 200)
       ELSE Pending(s, [reqs[s] EXCEPT !.pc = "write"])
    /\ UNCHANGED <<clock, historical, jobs, nreq, njob, nday, fnIn, fnOut>>

Save_guarded(s) ==
    /\ reqs[s].pc = "write"
    /\ LET r == Handle(reqs[s].body, reqs[s].doc, clock)
       IN  IF r.ok /\ scores[reqs[s].doc.id] = reqs[s].doc
           THEN scores' = Upsert(scores, r.doc) /\ Respond(s, 200)
           ELSE scores' = scores /\ Respond(s, 500)
    /\ UNCHANGED <<clock, historical, jobs, nreq, njob, nday, fnIn, fnOut>>

\* the handler's own update of the document and container.upsert_item(user_doc)
Save(s) ==
    /\ reqs[s].pc = "write"
    /\ LET r == Handle(reqs[s].body, reqs[s].doc, clock)
       IN  IF r.ok
           THEN scores' = Upsert(scores, r.doc) /\ Respond(s, 200)
           ELSE scores' = scores /\ Respond(s, 500)
    /\ UNCHANGED <<clock, historical, jobs, nreq, njob, nday, fnIn, fnOut>>

\* a store call of the handler raises: the handler's except answers 500
StoreError(s) ==
    /\ reqs[s].pc \in {"create", "write"}
    /\ Respond(s, 500)
    /\ UNCHANGED <<clock, scores, historical, jobs, nreq, njob, nday, fnIn, fnOut>>

----------------------------------------------------------------------------
(* Timer invocations                                                       *)

IdleJob == [pc |-> "idle", items |-> <<>>, idx |-> 0, week |-> 0,
            monday |-> FALSE, date |-> [week |-> 0, weekday |-> 0], errors |-> {}]

\* the timer fires: the function reads the clock and lists the current week's documents
Fire(t) ==
    /\ jobs[t].pc = "idle"
    /\ njob < MaxJob
    /\ InFlight < MaxInFlight
    /\ njob' = njob + 1
    /\ \E items \in Listings(QueryWeek(clock.week)) :
          jobs' = [jobs EXCEPT ![t] =
                    IF items = <<>> THEN IdleJob
                    ELSE [pc |-> "run", items |-> items, idx |-> 1, week |-> clock.week,
                          monday |-> (clock.weekday = 0), date |-> clock, errors |-> {}]]
    /\ UNCHANGED <<clock, scores, historical, reqs, acked, nreq, nday, fnIn, fnOut>>

\* the loop body of hourly_update, up to the upsert
hourly_item(item, now) ==
    IF /\ CanAddTo(item.currentDayEmissions, "food", PassiveFood)
       /\ CanAddTo(item.currentDayEmissions, "goods", PassiveGoods)
    THEN Returned([Rescore([item EXCEPT !.currentDayEmissions =
                        AddTo(AddTo(item.currentDayEmissions, "food", PassiveFood),
                              "goods", PassiveGoods)])
                   EXCEPT !.lastUpdated = now])
    ELSE Raised

\* int(max(0, 24 - driving_hours) * 600)
energy_emissions(driving_hours) == Max(0, HoursPerDay - driving_hours) * EnergyPerHour

\* the loop body of energy_update, up to the upsert
energy_item(item, now) ==
    IF IsNum(item.drivingHours)
    THEN Returned([Rescore([item EXCEPT !.currentDayEmissions =
                        SetKey(item.currentDayEmissions, "energy",
                               energy_emissions(item.drivingHours))])
                   EXCEPT !.lastUpdated = now])
    ELSE Raised

ShiftHistory_drop_newest(item) ==
    [item EXCEPT !.dailyHistory =
        <<item.currentDayEmissions>>
        \o (IF item.dailyHistory = <<>> THEN <<>>
            ELSE SubSeq(item.dailyHistory, 1, Len(item.dailyHistory) - 1))]

\* item['dailyHistory'][1:] + [item['currentDayEmissions']]
ShiftHistory(item) ==
    [item EXCEPT !.dailyHistory =
        (IF item.dailyHistory = <<>> THEN <<>> ELSE Tail(item.dailyHistory))
        \o <<item.currentDayEmissions>>]

\* archive_item = item.copy(); archive_item['id'] = ...
archive_item(item, current_week) ==
    [ShiftHistory(item) EXCEPT !.id = ArchiveId(item.userId, current_week)]

new_item_sameweek(item, current_week, current_date) ==
    [id |-> LiveId(item.userId, current_week + 1),
     userId |-> item.userId,
     weekNumber |-> current_week,
     weeklyScore |-> 0,
     dailyHistory |-> EmptyHistory,
     currentDayEmissions |-> create_empty_emissions,
     offsetGrams |-> item.offsetGrams,
     drivingHours |-> 0,
     carDetails |-> item.carDetails,
     lastUpdated |-> current_date]

new_item(item, current_week, current_date) ==
    [id |-> LiveId(item.userId, current_week + 1),
     userId |-> item.userId,
     weekNumber |-> current_week + 1,
     weeklyScore |-> 0,
     dailyHistory |-> EmptyHistory,
     currentDayEmissions |-> create_empty_emissions,
     offsetGrams |-> item.offsetGrams,
     drivingHours |-> 0,
     carDetails |-> item.carDetails,
     lastUpdated |-> current_date]

reset_item_keep_hours(item, current_date) ==
    [ShiftHistory(item) EXCEPT
        !.currentDayEmissions = create_empty_emissions,
        !.lastUpdated = current_date]

\* the else branch of daily_reset: "Reset current day emissions"
reset_item(item, current_date) ==
    [ShiftHistory(item) EXCEPT
        !.currentDayEmissions = create_empty_emissions,
        !.drivingHours = 0,
        !.lastUpdated = current_date]

\* the next iteration, or the function's return once the list is exhausted
Continued(t) ==
    IF jobs[t].idx < Len(jobs[t].items)
    THEN [jobs EXCEPT ![t].idx = @ + 1]
    ELSE [jobs EXCEPT ![t] = IdleJob]

Logged_break(t) == [jobs EXCEPT ![t] = IdleJob]

\* except Exception: logging.error(...); continue
Logged(t) ==
    IF jobs[t].idx < Len(jobs[t].items)
    THEN [jobs EXCEPT ![t].idx = @ + 1, ![t].errors = @ \cup {jobs[t].idx}]
    ELSE [jobs EXCEPT ![t] = IdleJob]

\* one iteration of "for item in items" of hourly_update or energy_update
StepTick(t) ==
    /\ t \in {"hourly", "energy"}
    /\ jobs[t].pc = "run"
    /\ jobs[t].idx <= Len(jobs[t].items)
    /\ LET item == jobs[t].items[jobs[t].idx]
           r == IF t = "hourly" THEN hourly_item(item, clock) ELSE energy_item(item, clock)
       IN  \E upsert_raises \in BOOLEAN :
             IF r.ok /\ ~upsert_raises
             THEN scores' = Upsert(scores, r.doc) /\ jobs' = Continued(t)
             ELSE scores' = scores /\ jobs' = Logged(t)
    /\ UNCHANGED <<clock, historical, reqs, acked, nreq, njob, nday, fnIn, fnOut>>

\* one iteration of "for item in items" of daily_reset
StepDaily ==
    /\ jobs["daily"].pc = "run"
    /\ jobs["daily"].idx <= Len(jobs["daily"].items)
    /\ LET j == jobs["daily"]
           item == j.items[j.idx]
       IN  \E raises \in {"nothing", "first upsert", "second upsert"} :
             IF j.monday
             THEN CASE raises = "first upsert" ->
                        /\ historical' = historical /\ scores' = scores
                        /\ jobs' = Logged("daily")
                    [] raises = "second upsert" ->
                        /\ historical' = Upsert(historical, archive_item(item, j.week))
                        /\ scores' = scores
                        /\ jobs' = Logged("daily")
                    [] OTHER ->
                        /\ historical' = Upsert(historical, archive_item(item, j.week))
                        /\ scores' = Upsert(scores, new_item(item, j.week, j.date))
                        /\ jobs' = Continued("daily")
             ELSE /\ raises # "second upsert"
                  /\ historical' = historical
                  /\ IF raises = "first upsert"
                     THEN scores' = scores /\ jobs' = Logged("daily")
                     ELSE /\ scores' = Upsert(scores, reset_item(item, j.date))
                          /\ jobs' = Continued("daily")
    /\ UNCHANGED <<clock, reqs, acked, nreq, njob, nday, fnIn, fnOut>>

----------------------------------------------------------------------------
(* The clock: isocalendar()[1] and weekday() of utcnow()                   *)

Midnight ==
    /\ nday < MaxDay
    /\ nday' = nday + 1
    /\ clock' = [weekday |-> (clock.weekday + 1) % 7,
                 week |-> IF clock.weekday # 6 THEN clock.week
                          ELSE IF clock.week >= WeeksPerYear THEN 1 ELSE clock.week + 1]
    /\ UNCHANGED <<scores, historical, reqs, acked, jobs, nreq, njob, fnIn, fnOut>>

InitClocks == {[week |-> WeeksPerYear, weekday |-> 6]}

NoCall == [fn |-> "none", doc |-> Raised.doc, key |-> "", value |-> 0,
           hours |-> 0, done |-> TRUE]

Init ==
    /\ clock \in InitClocks
    /\ scores = <<>>
    /\ historical = <<>>
    /\ reqs = [s \in Slots |-> IdleReq]
    /\ acked = {}
    /\ jobs = [t \in Timers |-> IdleJob]
    /\ nreq = 0
    /\ njob = 0
    /\ nday = 0
    /\ fnIn = NoCall
    /\ fnOut = Raised

Next ==
    \/ \E s \in Slots, b \in Bodies : Receive(s, b)
    \/ \E s \in Slots : Create(s)
    \/ \E s \in Slots : Save(s)
    \/ \E s \in Slots : StoreError(s)
    \/ \E t \in Timers : Fire(t)
    \/ \E t \in Timers : StepTick(t)
    \/ StepDaily
    \/ Midnight

Spec == Init /\ [][Next]_vars

----------------------------------------------------------------------------
(* The emission accumulation on its own: update_user_emissions, which no   *)
(* handler of this file calls, and the update of update_driving, applied   *)
(* to a document, an emission type and a delta.                            *)

FnClock == [week |-> 1, weekday |-> 1]

FnDocs ==
    {new_user("u1", 1, FnClock),
     [new_user("u1", 1, FnClock) EXCEPT
        !.dailyHistory = [i \in 1..HistoryLen |-> IF i = HistoryLen THEN BusyDay
                                                  ELSE create_empty_emissions],
        !.currentDayEmissions = [carEmissions |-> 100, food |-> PassiveFood,
                                 energy |-> 8400, goods |-> PassiveGoods],
        !.offsetGrams = 500, !.drivingHours = 10,
        !.carDetails = <<2020, "vw", "golf">>, !.weeklyScore = 8136],
     [new_user("u2", 1, FnClock) EXCEPT
        !.currentDayEmissions = [carEmissions |-> -700, food |-> 0, energy |-> 0, goods |-> 0],
        !.offsetGrams = -200, !.weeklyScore = 0],
     [new_user("u2", 1, FnClock) EXCEPT !.currentDayEmissions = TotalOnlyDay]}

FnKeys == {"carEmissions", "food", "energy", "goods"}
FnValues == {-700, 0, PassiveFood, 300, NotNum}

FnCalls ==
    {[fn |-> "update_user_emissions", doc |-> d, key |-> k, value |-> v,
      hours |-> 0, done |-> FALSE] : d \in FnDocs, k \in FnKeys, v \in FnValues}
    \cup
    {[fn |-> "update_driving", doc |-> d, key |-> "carEmissions", value |-> v,
      hours |-> h, done |-> FALSE] : d \in FnDocs, v \in FnValues, h \in {10, 30}}

InitFn ==
    /\ clock = FnClock
    /\ scores = <<>>
    /\ historical = <<>>
    /\ reqs = [s \in Slots |-> IdleReq]
    /\ acked = {}
    /\ jobs = [t \in Timers |-> IdleJob]
    /\ nreq = 0
    /\ njob = 0
    /\ nday = 0
    /\ fnIn \in FnCalls
    /\ fnOut = Raised

CallFn ==
    /\ ~fnIn.done
    /\ fnIn' = [fnIn EXCEPT !.done = TRUE]
    /\ fnOut' = IF fnIn.fn = "update_user_emissions"
                THEN update_user_emissions(fnIn.doc, fnIn.key, fnIn.value)
                ELSE update_driving(fnIn.doc, fnIn.hours, fnIn.value, clock)
    /\ UNCHANGED <<clock, scores, historical, reqs, acked, jobs, nreq, njob, nday>>

SpecFn == InitFn /\ [][CallFn]_vars

----------------------------------------------------------------------------
(* The ranking on its own: get_leaderboard and get_user_position applied   *)
(* to the rows their query returned.                                       *)

MaxSnapshot == 3

RankUsers == {"u1", "u2", "u3"}

\* SELECT c.userId, c.weeklyScore, c.offsetGrams FROM c WHERE c.weekNumber = @week
RankRows ==
    [userId : RankUsers, weeklyScore : {0, 500, 800, NotNum}, offsetGrams : {0, 500}]

\* the rows of a week: one per user, in the order the store returns them
Snapshots ==
    UNION {{s \in [1..n -> RankRows] : \A i, j \in 1..n : i # j => s[i].userId # s[j].userId}
           : n \in 0..MaxSnapshot}

\* item['netScore'] = item['weeklyScore'] - item.get('offsetGrams', 0)
WithNetScore(item) ==
    [userId |-> item.userId, weeklyScore |-> item.weeklyScore,
     offsetGrams |-> item.offsetGrams, netScore |-> item.weeklyScore - item.offsetGrams]

\* the subtraction raises TypeError on a weeklyScore that is not a number
CanRank(items) == \A i \in 1..Len(items) : IsNum(items[i].weeklyScore)

RECURSIVE Insert_before_equal(_, _)
Insert_before_equal(s, x) ==
    IF s = <<>> THEN <<x>>
    ELSE IF Head(s).netScore < x.netScore
         THEN <<Head(s)>> \o Insert_before_equal(Tail(s), x)
         ELSE <<x>> \o s

\* x goes behind every element of the sorted s whose key is not greater than its own
RECURSIVE Insert(_, _)
Insert(s, x) ==
    IF s = <<>> THEN <<x>>
    ELSE IF Head(s).netScore <= x.netScore
         THEN <<Head(s)>> \o Insert(Tail(s), x)
         ELSE <<x>> \o s

\* sorted(items, key=lambda x: x['netScore']): ascending, and stable
RECURSIVE sorted(_)
sorted(items) ==
    IF items = <<>> THEN <<>>
    ELSE Insert(sorted(SubSeq(items, 1, Len(items) - 1)), items[Len(items)])

sorted_items(items) == sorted([i \in 1..Len(items) |-> WithNetScore(items[i])])

NoAnswer == [status |-> 0, leaderboard |-> <<>>, totalUsers |-> 0,
             position |-> None, percentile |-> <<>>]

get_leaderboard(items) ==
    IF CanRank(items)
    THEN [NoAnswer EXCEPT !.status = 200, !.leaderboard = sorted_items(items),
                          !.totalUsers = Len(sorted_items(items))]
    ELSE [NoAnswer EXCEPT !.status = 500]

Position_zero_based(ranked, user_id) ==
    IF \E i \in 1..Len(ranked) : ranked[i].userId = user_id
    THEN (CHOOSE i \in 1..Len(ranked) :
            /\ ranked[i].userId = user_id
            /\ \A j \in 1..(i - 1) : ranked[j].userId # user_id) - 1
    ELSE None

\* next((i + 1 for i, item in enumerate(sorted_items) if item['userId'] == user_id), None)
Position(ranked, user_id) ==
    IF \E i \in 1..Len(ranked) : ranked[i].userId = user_id
    THEN CHOOSE i \in 1..Len(ranked) :
            /\ ranked[i].userId = user_id
            /\ \A j \in 1..(i - 1) : ranked[j].userId # user_id
    ELSE None

\* ((len(sorted_items) - position) / len(sorted_items)) * 100, as the fraction
\* <<numerator, denominator>>; the division raises ZeroDivisionError on an empty list
get_user_position(items, user_id) ==
    IF user_id = NoUser THEN [NoAnswer EXCEPT !.status = 400]
    ELSE IF ~CanRank(items) THEN [NoAnswer EXCEPT !.status = 500]
    ELSE LET position == Position(sorted_items(items), user_id)
             n == Len(sorted_items(items))
         IN  IF position = None THEN [NoAnswer EXCEPT !.status = 404]
             ELSE IF n = 0 THEN [NoAnswer EXCEPT !.status = 500]
             ELSE [NoAnswer EXCEPT !.status = 200, !.position = position,
                                   !.totalUsers = n,
                                   !.percentile = <<(n - position) * 100, n>>]

RankCalls ==
    {[fn |-> "get_leaderboard", items |-> s, user_id |-> NoUser, done |-> FALSE] :
        s \in Snapshots}
    \cup
    {[fn |-> "get_user_position", items |-> s, user_id |-> u, done |-> FALSE] :
        s \in Snapshots, u \in RankUsers \cup {NoUser}}

InitRank ==
    /\ clock = FnClock
    /\ scores = <<>>
    /\ historical = <<>>
    /\ reqs = [s \in Slots |-> IdleReq]
    /\ acked = {}
    /\ jobs = [t \in Timers |-> IdleJob]
    /\ nreq = 0
    /\ njob = 0
    /\ nday = 0
    /\ fnIn \in RankCalls
    /\ fnOut = NoAnswer

CallRank ==
    /\ ~fnIn.done
    /\ fnIn' = [fnIn EXCEPT !.done = TRUE]
    /\ fnOut' = IF fnIn.fn = "get_leaderboard"
                THEN get_leaderboard(fnIn.items)
                ELSE get_user_position(fnIn.items, fnIn.user_id)
    /\ UNCHANGED <<clock, scores, historical, reqs, acked, jobs, nreq, njob, nday>>

SpecRank == InitRank /\ [][CallRank]_vars

----------------------------------------------------------------------------
(* Properties                                                              *)

AllNumbers(d) ==
    /\ \A i \in 1..Len(d.dailyHistory) : Summable(d.dailyHistory[i])
    /\ Summable(d.currentDayEmissions)

\* max(0, sum of the history's fields + sum of the current day's fields - offsetGrams)
ScoreFormula(d) ==
    Max(0, SumHistory(d.dailyHistory) + SumValues(d.currentDayEmissions) - d.offsetGrams)

ScoreMatches(d) == AllNumbers(d) => d.weeklyScore = ScoreFormula(d)

\* the request in slot s is one of the score-affecting updates and its update succeeds
ScoreUpdateSaved(s) ==
    /\ Save(s)
    /\ reqs[s].body.op \in {"update_driving", "update_carbon_offsets"}
    /\ Handle(reqs[s].body, reqs[s].doc, clock).ok

\* the tick t stores the document it is at
TickStored(t) ==
    /\ StepTick(t)
    /\ scores' # scores

\* C1: right after update_driving, update_carbon_offsets, the hourly tick or the energy
\* tick has stored a record, that record's weeklyScore equals max(0, sum of the fields of
\* its dailyHistory entries + sum of the fields of its currentDayEmissions - offsetGrams),
\* computed from the stored record itself (for a record whose fields are all numbers).
C1_ScoreRecomputed ==
    [][/\ \A s \in Slots :
            ScoreUpdateSaved(s) => ScoreMatches(scores'[reqs[s].doc.id])
       /\ \A t \in {"hourly", "energy"} :
            TickStored(t) => ScoreMatches(scores'[jobs[t].items[jobs[t].idx].id])]_vars

\* a record on which update_driving and the energy tick have acted, with a positive score
C1_Witness ==
    \E i \in DOMAIN scores :
        /\ scores[i].currentDayEmissions = [carEmissions |-> 300, food |-> 0,
                                            energy |-> 8400, goods |-> 0]
        /\ scores[i].offsetGrams = 500
        /\ scores[i].weeklyScore = 8200

\* C2: in every reachable state, after any sequence of operations (update_weekly_score
\* included), the weeklyScore of every live record is >= 0.
C2_ScoreNeverNegative ==
    \A i \in DOMAIN scores : scores[i].weeklyScore >= 0

\* the documents a step stores in a container: created, or replaced by different content
Written(old, new) ==
    {new[i] : i \in {j \in DOMAIN new : j \notin DOMAIN old \/ new[j] # old[j]}}

\* C3: the record the daily rollover persists in the live store (the reset record, or the
\* successor at a week boundary) carries the weeklyScore that the score formula gives on
\* that record as persisted, i.e. on the post-rollover state.  Stated for the records
\* whose fields are numbers and whose weeklyScore was up to date before the rollover.
C3_RolloverRescored ==
    [][StepDaily =>
        LET item == jobs["daily"].items[jobs["daily"].idx]
        IN  (AllNumbers(item) /\ ScoreMatches(item)) =>
                \A d \in Written(scores, scores') : ScoreMatches(d)]_vars

\* C4: every record a daily rollover persists, live or archived, has a dailyHistory of
\* exactly 7 entries, whatever operations came before.
C4_WindowLength ==
    [][StepDaily =>
        \A d \in Written(scores, scores') \cup Written(historical, historical') :
            Len(d.dailyHistory) = HistoryLen]_vars

\* C5: the successor a week-boundary rollover creates for weekNumber + 1 has the closing
\* record's carDetails, offsetGrams = 0 and drivingHours = 0.
C5_SuccessorFields ==
    [][(StepDaily /\ jobs["daily"].monday) =>
        LET item == jobs["daily"].items[jobs["daily"].idx]
        IN  \A d \in Written(scores, scores') :
                /\ d.id = LiveId(item.userId, jobs["daily"].week + 1)
                /\ d.carDetails = item.carDetails
                /\ d.offsetGrams = 0
                /\ d.drivingHours = 0]_vars

\* C6: an archived record, once written, is never changed by a later step.
C6_ArchiveImmutable ==
    [][\A i \in DOMAIN historical :
            i \in DOMAIN historical' /\ historical'[i] = historical[i]]_vars

\* C7: the live store never holds two records with the same (userId, weekNumber); once
\* get_or_create_user has returned to a handler there is exactly one for that user and
\* week; and no archived record is stored under the identity of a live record.
C7_OneLivePerUserWeek ==
    /\ \A i, j \in DOMAIN scores :
            (scores[i].userId = scores[j].userId /\ scores[i].weekNumber = scores[j].weekNumber)
                => i = j
    /\ \A s \in Slots :
            reqs[s].pc = "write" =>
                Cardinality(QueryUserWeek(reqs[s].body.userId, reqs[s].week)) = 1
    /\ DOMAIN scores \cap DOMAIN historical = {}

\* a handler whose get_or_create_user found nothing is about to create the record that a
\* concurrent handler has created in the meantime; and a week has been archived
C7_Witness ==
    /\ \E s \in Slots : reqs[s].pc = "create" /\ reqs[s].doc.id \in DOMAIN scores
    /\ historical # <<>>

CarBody == [Body("update_car_info", "u1") EXCEPT
                !.carYear = 2020, !.carMake = "vw", !.carModel = "golf"]

\* C8: updates are unguarded read-modify-writes.  What a handler or a tick stores is
\* computed from the document it read, whatever the store holds by then: the fields it
\* does not set are written back with the values read, so a change another invocation
\* stored in between is overwritten.
C8_LastWriterWins ==
    [][/\ \A s \in Slots :
            (Save(s) /\ Handle(reqs[s].body, reqs[s].doc, clock).ok) =>
                LET b == reqs[s].body
                    read == reqs[s].doc
                    stored == scores'[read.id]
                IN  /\ b.op # "update_car_info" => stored.carDetails = read.carDetails
                    /\ b.op # "update_carbon_offsets" => stored.offsetGrams = read.offsetGrams
                    /\ b.op = "update_carbon_offsets" =>
                            stored.offsetGrams = read.offsetGrams + b.offsetGrams
       /\ \A t \in {"hourly", "energy"} :
            TickStored(t) =>
                LET read == jobs[t].items[jobs[t].idx]
                    stored == scores'[read.id]
                IN  /\ stored.carDetails = read.carDetails
                    /\ stored.offsetGrams = read.offsetGrams
                    /\ stored.drivingHours = read.drivingHours]_vars

\* a lost update: update_car_info was answered 200 for u1 in this week, and the stored
\* record of u1 has no car details
C8_Witness ==
    /\ nday = 0
    /\ CarBody \in acked
    /\ LiveId("u1", clock.week) \in DOMAIN scores
    /\ scores[LiveId("u1", clock.week)].carDetails = <<>>

JobStep(t) == IF t = "daily" THEN StepDaily ELSE StepTick(t)

\* what the job t stores for the document it is at when nothing raises
Processed(t) ==
    LET j == jobs[t]
        item == j.items[j.idx]
    IN  CASE t = "hourly" ->
                [ok |-> hourly_item(item, clock).ok,
                 live |-> {hourly_item(item, clock).doc}, archive |-> {}]
          [] t = "energy" ->
                [ok |-> energy_item(item, clock).ok,
                 live |-> {energy_item(item, clock).doc}, archive |-> {}]
          [] OTHER ->
                IF j.monday
                THEN [ok |-> TRUE, live |-> {new_item(item, j.week, j.date)},
                      archive |-> {archive_item(item, j.week)}]
                ELSE [ok |-> TRUE, live |-> {reset_item(item, j.date)}, archive |-> {}]

C10_AccumulateFrame ==
    fnIn.done =>
        LET before == fnIn.doc
            after == fnOut.doc
        IN  /\ fnOut.ok <=> (fnIn.key \in DOMAIN before.currentDayEmissions /\ IsNum(fnIn.value))
            /\ fnOut.ok =>
                /\ DOMAIN after.currentDayEmissions = DOMAIN before.currentDayEmissions
                /\ after.currentDayEmissions[fnIn.key]
                        = before.currentDayEmissions[fnIn.key] + fnIn.value
                /\ \A k \in DOMAIN before.currentDayEmissions \ {fnIn.key} :
                        after.currentDayEmissions[k] = before.currentDayEmissions[k]
                /\ after.dailyHistory = before.dailyHistory
                /\ after.offsetGrams = before.offsetGrams
                /\ after.carDetails = before.carDetails

\* 300 g of food emissions were added to a day that already had 17 g
C10_Witness ==
    /\ fnIn.done
    /\ fnOut.ok
    /\ fnIn.fn = "update_user_emissions"
    /\ fnIn.key = "food"
    /\ fnIn.value = 300
    /\ fnIn.doc.currentDayEmissions.food = PassiveFood
    /\ fnOut.doc.currentDayEmissions.food = 317

\* C11: when update_driving applies a driving-hours report h to a record, the record
\* afterwards has drivingHours = h and currentDayEmissions.energy = max(0, 24 - h) * 600.
C11_DrivingSetsEnergy ==
    (fnIn.done /\ fnIn.fn = "update_driving" /\ fnOut.ok) =>
        /\ fnOut.doc.drivingHours = fnIn.hours
        /\ fnOut.doc.currentDayEmissions.energy = energy_emissions(fnIn.hours)

\* C12: the energy tick stores each record with currentDayEmissions.energy =
\* max(0, 24 - drivingHours) * 600 of the drivingHours it read, whatever energy was
\* there before, with drivingHours and every other field of currentDayEmissions as read;
\* applying the tick to the record it stored gives that record again, apart from
\* lastUpdated.
C12_EnergyTickIdempotent ==
    [][TickStored("energy") =>
        LET read == jobs["energy"].items[jobs["energy"].idx]
            stored == scores'[read.id]
            again == energy_item(stored, clock)
        IN  /\ stored.currentDayEmissions.energy = energy_emissions(read.drivingHours)
            /\ stored.drivingHours = read.drivingHours
            /\ \A k \in DOMAIN read.currentDayEmissions \ {"energy"} :
                    stored.currentDayEmissions[k] = read.currentDayEmissions[k]
            /\ DOMAIN stored.currentDayEmissions
                    = DOMAIN read.currentDayEmissions \cup {"energy"}
            /\ again.ok
            /\ [again.doc EXCEPT !.lastUpdated = stored.lastUpdated] = stored]_vars

\* the energy tick runs for the second time: it has stored again the record of a user
\* who drove 10 hours, which already had the energy of the first run
C12_Witness ==
    /\ jobs["energy"].pc = "run"
    /\ jobs["energy"].idx = 2
    /\ jobs["energy"].errors = {}
    /\ LET read == jobs["energy"].items[1]
       IN  /\ read.drivingHours = 10
           /\ read.currentDayEmissions.energy = 8400
           /\ scores[read.id].currentDayEmissions = read.currentDayEmissions
           /\ scores[read.id].weeklyScore = read.weeklyScore

\* C13: for every snapshot of rows with numeric scores, the leaderboard is a permutation
\* of the snapshot in which each entry carries netScore = weeklyScore - offsetGrams, the
\* entries are in ascending netScore order, and entries of equal netScore are in the
\* order the snapshot had them; a snapshot has one leaderboard.
C13_LeaderboardSorted ==
    (fnIn.done /\ fnIn.fn = "get_leaderboard" /\ CanRank(fnIn.items)) =>
        LET items == fnIn.items
            board == fnOut.leaderboard
            n == Len(items)
            \* where the row of the i-th leaderboard entry was in the snapshot
            from(i) == CHOOSE k \in 1..n : items[k].userId = board[i].userId
        IN  /\ fnOut.status = 200
            /\ fnOut.totalUsers = n
            /\ Len(board) = n
            /\ \A k \in 1..n : \E i \in 1..n : board[i].userId = items[k].userId
            /\ \A i \in 1..n :
                    /\ \E k \in 1..n : items[k].userId = board[i].userId
                    /\ board[i].weeklyScore = items[from(i)].weeklyScore
                    /\ board[i].offsetGrams = items[from(i)].offsetGrams
                    /\ board[i].netScore = board[i].weeklyScore - board[i].offsetGrams
            /\ \A i, j \in 1..n :
                    i < j =>
                        /\ board[i].netScore <= board[j].netScore
                        /\ board[i].netScore = board[j].netScore => from(i) < from(j)

\* a leaderboard of three users in which a tie was kept in snapshot order behind a user
\* the snapshot listed last
C13_Witness ==
    /\ fnIn.done
    /\ fnIn.fn = "get_leaderboard"
    /\ fnIn.items = <<[userId |-> "u2", weeklyScore |-> 500, offsetGrams |-> 500],
                      [userId |-> "u1", weeklyScore |-> 0, offsetGrams |-> 0],
                      [userId |-> "u3", weeklyScore |-> 0, offsetGrams |-> 500]>>
    /\ fnOut.status = 200
    /\ fnOut.leaderboard[1].userId = "u3"
    /\ fnOut.leaderboard[2].userId = "u2"
    /\ fnOut.leaderboard[3].userId = "u1"

\* C14: for every snapshot of rows with numeric scores, get_user_position answers
\* not-found exactly when the user has no row in the snapshot, and otherwise the 1-based
\* index of the user's row in the leaderboard ordering, with 1 <= position <= totalUsers;
\* for the empty snapshot the answer is not-found, and the percentile's division by
\* totalUsers = 0 is not evaluated.
C14_PositionOrNotFound ==
    (fnIn.done /\ fnIn.fn = "get_user_position" /\ fnIn.user_id # NoUser
        /\ CanRank(fnIn.items)) =>
        LET items == fnIn.items
            present == \E k \in 1..Len(items) : items[k].userId = fnIn.user_id
            board == get_leaderboard(items).leaderboard
        IN  /\ fnOut.status \in {200, 404}
            /\ fnOut.status = 404 <=> ~present
            /\ items = <<>> => fnOut.status = 404 /\ fnOut.percentile = <<>>
            /\ fnOut.status = 200 =>
                /\ fnOut.totalUsers = Len(items)
                /\ 1 <= fnOut.position
                /\ fnOut.position <= fnOut.totalUsers
                /\ board[fnOut.position].userId = fnIn.user_id
                /\ fnOut.percentile[2] # 0

\* a user the snapshot lists last is ranked second of three
C14_Witness ==
    /\ fnIn.done
    /\ fnIn.fn = "get_user_position"
    /\ Len(fnIn.items) = 3
    /\ fnIn.items[3].userId = fnIn.user_id
    /\ fnOut.status = 200
    /\ fnOut.position = 2
    /\ fnOut.totalUsers = 3
    /\ fnOut.percentile = <<100, 3>>

\* the required numeric field of the body is present and is not a number
Malformed(b) ==
    \/ b.op = "update_driving" /\ b.drivingHours = NotNum
    \/ b.op = "update_carbon_offsets" /\ b.offsetGrams = NotNum

\* C15: an update request that lacks userId or its required field, or whose required
\* numeric field is not a number, is answered with an error and is not applied: no step
\* of its handler creates or modifies a record, and it is not answered 200.
C15_RejectedNotApplied ==
    [][/\ \A s \in Slots, b \in Bodies :
            (Receive(s, b) /\ ~Valid(b)) =>
                scores' = scores /\ reqs' = reqs /\ acked' = acked
       /\ \A s \in Slots :
            (Malformed(reqs[s].body) /\ (Create(s) \/ Save(s) \/ StoreError(s))) =>
                scores' = scores /\ reqs[s].body \notin acked']_vars

\* C16: in every reachable state the offsetGrams of every live record is >= 0.
C16_OffsetsNonNegative ==
    \A i \in DOMAIN scores : scores[i].offsetGrams >= 0

\* C17: in every reachable state every numeric field of currentDayEmissions and of every
\* dailyHistory entry of every live record is >= 0.
C17_EmissionsNonNegative ==
    \A i \in DOMAIN scores :
        LET days == {scores[i].currentDayEmissions}
                    \cup {scores[i].dailyHistory[n] : n \in 1..Len(scores[i].dailyHistory)}
        IN  \A day \in days : \A k \in DOMAIN day : IsNum(day[k]) => day[k] >= 0

\* C18: a daily rollover shifts the window first-in-first-out: for a record read with
\* history h and current day c, the history the rollover persists (on the live record,
\* or on the archived copy at a week boundary) is h without its first entry, in the same
\* order, followed by c.
C18_ShiftFifo ==
    [][StepDaily =>
        LET j == jobs["daily"]
            item == j.items[j.idx]
            h == item.dailyHistory
            shifted == SubSeq(h, 2, Len(h)) \o <<item.currentDayEmissions>>
            persisted == IF j.monday THEN Written(historical, historical')
                         ELSE Written(scores, scores')
        IN  \A d \in persisted :
                /\ d.userId = item.userId
                /\ d.dailyHistory = shifted
                /\ Len(h) = HistoryLen =>
                        /\ Len(d.dailyHistory) = HistoryLen
                        /\ \A n \in 1..(HistoryLen - 1) : d.dailyHistory[n] = h[n + 1]
                        /\ d.dailyHistory[HistoryLen] = item.currentDayEmissions]_vars

\* two days were closed one after the other: the day with 300 g of car emissions is
\* sixth in the window and the day closed after it is last
C18_Witness ==
    \E i \in DOMAIN scores :
        /\ Len(scores[i].dailyHistory) = HistoryLen
        /\ scores[i].dailyHistory[HistoryLen - 1].carEmissions = 300
        /\ scores[i].dailyHistory[HistoryLen].carEmissions = -700
        /\ scores[i].currentDayEmissions = create_empty_emissions

\* C19: a daily rollover that is not at a week boundary keeps the record live under the
\* same identity, stores it with the four fields of currentDayEmissions and drivingHours
\* at 0 and with offsetGrams, carDetails, userId and weekNumber as read, and writes no
\* archived record.
C19_ResetFrame ==
    [][(StepDaily /\ ~jobs["daily"].monday) =>
        LET item == jobs["daily"].items[jobs["daily"].idx]
        IN  /\ historical' = historical
            /\ DOMAIN scores' = DOMAIN scores \cup {item.id}
            /\ \A d \in Written(scores, scores') :
                    /\ d.id = item.id
                    /\ d.currentDayEmissions = create_empty_emissions
                    /\ d.drivingHours = 0
                    /\ d.offsetGrams = item.offsetGrams
                    /\ d.carDetails = item.carDetails
                    /\ d.userId = item.userId
                    /\ d.weekNumber = item.weekNumber]_vars

\* a Sunday rollover has closed the day of a user with 10 driving hours reported and
\* 500 g of offsets: the day is in the window, the offsets are kept, nothing is archived
C19_Witness ==
    /\ nday = 0
    /\ historical = <<>>
    /\ \E i \in DOMAIN scores :
        /\ Len(scores[i].dailyHistory) = HistoryLen
        /\ scores[i].dailyHistory[HistoryLen].carEmissions = 300
        /\ scores[i].currentDayEmissions = create_empty_emissions
        /\ scores[i].drivingHours = 0
        /\ scores[i].offsetGrams = 500
        /\ scores[i].weekNumber = clock.week

\* C20: once a week-boundary rollover has stored the successor of a user's record, the
\* current-week lookups for that user (the query of get_or_create_user and the query of
\* the leaderboard, with the week number read from the clock) return the successor, with
\* currentDayEmissions, dailyHistory and drivingHours zero, and not the closing record.
C20_SuccessorAddressed ==
    [][(StepDaily /\ jobs["daily"].monday /\ scores' # scores) =>
        LET item == jobs["daily"].items[jobs["daily"].idx]
            found == {d \in Docs(scores') :
                        d.userId = item.userId /\ d.weekNumber = clock'.week}
        IN  /\ found = Written(scores, scores')
            /\ \A d \in found :
                    /\ d.currentDayEmissions = create_empty_emissions
                    /\ d.dailyHistory = EmptyHistory
                    /\ d.drivingHours = 0]_vars

\* the ISO week before week w (of a 52-week year)
ClosingWeek(w) == IF w = 1 THEN WeeksPerYear ELSE w - 1

\* C21: at a week-boundary rollover the archived record is a copy of the user's record
\* of the week that is closing: it is keyed by and carries the number of the closing
\* week, and its dailyHistory (with the last day pushed), offsetGrams and weeklyScore are
\* those of the user's live record of that week.
C21_ArchiveIsClosingWeek ==
    [][(StepDaily /\ jobs["daily"].monday) =>
        LET item == jobs["daily"].items[jobs["daily"].idx]
            closing == ClosingWeek(clock.week)
        IN  \A d \in Written(historical, historical') :
                /\ d.id = ArchiveId(item.userId, closing)
                /\ d.weekNumber = closing
                /\ LiveId(item.userId, closing) \in DOMAIN scores
                /\ LET closed == scores[LiveId(item.userId, closing)]
                   IN  /\ d.dailyHistory = ShiftHistory(closed).dailyHistory
                       /\ d.offsetGrams = closed.offsetGrams
                       /\ d.weeklyScore = closed.weeklyScore]_vars

\* C22: once update_car_info has been answered for a user, every later current-week
\* lookup for that user (the query of get_or_create_user, or the record it creates when
\* the query finds none) returns a record with those carDetails, rollovers included.
C22_CarDetailsSurvive ==
    [][\A s \in Slots, b \in Bodies :
        (Receive(s, b) /\ Valid(b) /\ b.userId = CarBody.userId /\ CarBody \in acked
            /\ reqs'[s].pc # "idle") =>
            reqs'[s].doc.carDetails = <<CarBody.carYear, CarBody.carMake, CarBody.carModel>>]_vars

\* C23: read operations leave the store unchanged: no step of a get_user_stats request,
\* for a user with or without a record for the current week, adds or changes a live
\* record.
C23_ReadsLeaveStore ==
    [][\A s \in Slots :
        /\ \A b \in Bodies :
                (Receive(s, b) /\ b.op = "get_user_stats") => scores' = scores
        /\ (reqs[s].body.op = "get_user_stats"
                /\ (Create(s) \/ Save(s) \/ StoreError(s))) => scores' = scores]_vars

====
